---- MODULE Spec2Model ----
(***************************************************************************)
(* SnapDown backend (src/app.py): URL validation, the extraction adapter   *)
(* with its variant classifier, the HLS-to-MP4 conversion and the          *)
(* /api/download proxy, as a state machine.                                *)
(*                                                                         *)
(* Python strings are sequences of one-character strings, so that          *)
(* re.match, re.search, str.strip, str.lower, str.endswith and `in` are    *)
(* computed as the code computes them.                                     *)
(***************************************************************************)
EXTENDS Integers, Sequences, FiniteSets

VARIABLES
    ffmpeg_available,  \* SnapchatExtractor.ffmpeg_available, set once by __init__
    epc,               \* position of the /api/extract or /api/formats request
    ereq,              \* that request: endpoint, JSON body, url handed to the extractor
    engine_called,     \* has ytdl.extract_info been called for that request
    ereply,            \* what ytdl.extract_info gave for that request
    eresp,             \* the response of that request
    now,               \* the last reading of the wall clock, in whole seconds (%S resolution)
    files,             \* the temp directory: path -> "absent" | "empty" | "data"
    thr,               \* per request thread of GET /api/download or extractor.download_video
    ffmpeg_runs,       \* per thread: number of encoder subprocesses started
    remote_fetches     \* per thread: number of requests.get calls

vars == <<ffmpeg_available, epc, ereq, engine_called, ereply, eresp,
          now, files, thr, ffmpeg_runs, remote_fetches>>

extract_vars == <<epc, ereq, engine_called, ereply, eresp>>
download_vars == <<now, files, thr, ffmpeg_runs, remote_fetches>>

----------------------------------------------------------------------------
(* Characters and string literals of the source *)

Lower == {"a","b","c","d","e","f","g","h","i","j","k","l","m","n","o","p","q","r","s","t","u","v","w","x","y","z"}
UpperSeq == <<"A","B","C","D","E","F","G","H","I","J","K","L","M","N","O","P","Q","R","S","T","U","V","W","X","Y","Z">>
LowerSeq == <<"a","b","c","d","e","f","g","h","i","j","k","l","m","n","o","p","q","r","s","t","u","v","w","x","y","z">>
Upper == {UpperSeq[i] : i \in DOMAIN UpperSeq}
Digit == {"0","1","2","3","4","5","6","7","8","9"}
DigitSeq == <<"0","1","2","3","4","5","6","7","8","9">>
Whitespace == {" "}

\* the character classes of the patterns of is_valid_snapchat_url
ClassWord == Lower \cup Upper \cup Digit \cup {"_", "-"}
ClassWordDot == ClassWord \cup {"."}
ClassWordPath == ClassWord \cup {"/", "@", "."}
ClassWordSlash == ClassWord \cup {"/"}
ClassHexDash == {"a","b","c","d","e","f"} \cup Digit \cup {"-"}

HTTP == <<"h","t","t","p">>
COLON_SLASHES == <<":","/","/">>
WWW_DOT == <<"w","w","w",".">>
STORY_DOT == <<"s","t","o","r","y",".">>
T_DOT == <<"t",".">>
SNAPCHAT_COM == <<"s","n","a","p","c","h","a","t",".","c","o","m">>
SNAP_CHAT == <<"s","n","a","p",".","c","h","a","t">>
SLASH_T == <<"/","t","/">>
SLASH_S == <<"/","s","/">>
SLASH_P == <<"/","p","/">>
SLASH_DISCOVER == <<"/","d","i","s","c","o","v","e","r","/">>
SLASH_SPOTLIGHT == <<"/","s","p","o","t","l","i","g","h","t","/">>
SLASH_AT == <<"/","@">>
SLASH_ADD == <<"/","a","d","d","/">>
DOT_M3U8 == <<".","m","3","u","8">>
M3U8 == <<"m","3","u","8">>
MP4 == <<"m","p","4">>
HLS == <<"h","l","s">>
H264 == <<"h","2","6","4">>

\* Python's None, and a key a dict does not hold: neither is a character sequence
None == <<"None">>
Absent == <<"Absent">>

----------------------------------------------------------------------------
(* str methods *)

\* prefix in s at position p
HasAt(s, p, lit) ==
    /\ p + Len(lit) - 1 <= Len(s)
    /\ \A i \in 1..Len(lit) : s[p + i - 1] = lit[i]

\* lit in s
Contains(s, lit) == \E p \in 1..(Len(s) + 1) : HasAt(s, p, lit)

\* s.startswith(lit), s.endswith(lit)
StartsWith(s, lit) == HasAt(s, 1, lit)
EndsWith(s, lit) == Len(lit) <= Len(s) /\ HasAt(s, Len(s) - Len(lit) + 1, lit)

\* c.lower() of one character
LowerChar(c) ==
    IF c \in Upper
    THEN LowerSeq[CHOOSE i \in DOMAIN UpperSeq : UpperSeq[i] = c]
    ELSE c

\* s.lower()
ToLower(s) == [i \in 1..Len(s) |-> LowerChar(s[i])]

\* s.strip()
Strip(s) ==
    LET keep == {i \in 1..Len(s) : s[i] \notin Whitespace}
    IN IF keep = {} THEN <<>>
       ELSE LET lo == CHOOSE i \in keep : \A j \in keep : i <= j
                hi == CHOOSE i \in keep : \A j \in keep : i >= j
            IN SubSeq(s, lo, hi)

\* str(x): None prints as the four characters of "None"
Str(x) == IF x = None THEN <<"N","o","n","e">> ELSE x

\* d.get(key, default) on a field that may be Absent
Get(v, default) == IF v = Absent THEN default ELSE v

\* truthiness of a string-or-None value
Truthy(v) == v # None /\ v # Absent /\ v # <<>>

----------------------------------------------------------------------------
(* re: a pattern maps the set of positions where matching may stand to the  *)
(* set of positions after it; a pattern matches iff that set is not empty.  *)

\* a literal
Lit(s, P, lit) == {p + Len(lit) : p \in {q \in P : HasAt(s, q, lit)}}

\* (lit)?
Opt(s, P, lit) == P \cup Lit(s, P, lit)

\* [class]+
Plus(s, P, class) ==
    {q \in 2..(Len(s) + 1) : \E p \in P : p < q /\ \A i \in p..(q - 1) : s[i] \in class}

\* [class]{n}
Rep(s, P, class, n) ==
    {p + n : p \in {q \in P : q + n - 1 <= Len(s) /\ \A i \in q..(q + n - 1) : s[i] \in class}}

\* https?://
Https(s, P) == Lit(s, Opt(s, Lit(s, P, HTTP), <<"s">>), COLON_SLASHES)

\* (snapchat\.com|snap\.chat)
SnapHost(s, P) == Lit(s, P, SNAPCHAT_COM) \cup Lit(s, P, SNAP_CHAT)

UuidLen == 36

\* the list snapchat_patterns, each pattern applied to s from the positions P
snapchat_patterns(s, P) ==
    << Plus(s, Lit(s, SnapHost(s, Opt(s, Https(s, P), WWW_DOT)), SLASH_T), ClassWord),
       Plus(s, Lit(s, SnapHost(s, Opt(s, Https(s, P), WWW_DOT)), SLASH_S), ClassWord),
       Plus(s, Lit(s, Lit(s, Opt(s, Https(s, P), STORY_DOT), SNAPCHAT_COM), SLASH_S), ClassWord),
       Plus(s, Lit(s, Lit(s, Opt(s, Https(s, P), STORY_DOT), SNAPCHAT_COM), SLASH_P), ClassWord),
       Plus(s, Lit(s, Lit(s, Opt(s, Https(s, P), WWW_DOT), SNAPCHAT_COM), SLASH_DISCOVER), ClassWord),
       Plus(s, Lit(s, Lit(s, Opt(s, Https(s, P), WWW_DOT), SNAPCHAT_COM), SLASH_SPOTLIGHT), ClassWord),
       Plus(s, Lit(s, Plus(s, Lit(s, Lit(s, Opt(s, Https(s, P), WWW_DOT), SNAPCHAT_COM), SLASH_AT),
                           ClassWordDot), SLASH_SPOTLIGHT), ClassWord),
       Lit(s, Plus(s, Lit(s, Lit(s, Opt(s, Https(s, P), WWW_DOT), SNAPCHAT_COM), SLASH_SPOTLIGHT),
                   ClassWord), <<"?">>),
       Plus(s, Lit(s, Rep(s, Lit(s, Lit(s, Lit(s, Https(s, P), STORY_DOT), SNAPCHAT_COM), SLASH_P),
                          ClassHexDash, UuidLen), <<"/">>), Digit),
       Lit(s, Plus(s, Lit(s, Lit(s, Lit(s, Https(s, P), STORY_DOT), SNAPCHAT_COM), SLASH_S),
                   ClassWord), <<"?">>),
       Plus(s, Lit(s, Lit(s, Opt(s, Https(s, P), WWW_DOT), SNAPCHAT_COM), <<"/">>), ClassWordPath),
       Plus(s, Lit(s, Lit(s, Lit(s, Https(s, P), STORY_DOT), SNAPCHAT_COM), <<"/">>), ClassWordSlash),
       Plus(s, Lit(s, Lit(s, Lit(s, Https(s, P), T_DOT), SNAPCHAT_COM), <<"/">>), ClassWord),
       Plus(s, Lit(s, Lit(s, Lit(s, Https(s, P), WWW_DOT), SNAPCHAT_COM), SLASH_ADD), ClassWordDot) >>

\* any(re.match(pattern, url) for pattern in snapchat_patterns)
is_valid_snapchat_url(url) ==
    LET matches == snapchat_patterns(url, {1})
    IN \E k \in DOMAIN matches : matches[k] # {}

\* the list story_patterns
story_patterns(s, P) ==
    << Lit(s, Lit(s, Lit(s, Https(s, P), STORY_DOT), SNAPCHAT_COM), SLASH_P),
       Lit(s, Lit(s, Lit(s, Https(s, P), STORY_DOT), SNAPCHAT_COM), SLASH_S) >>

\* any(re.search(pattern, url) for pattern in story_patterns): a match may start anywhere
is_story_url(url) ==
    LET matches == story_patterns(url, 1..(Len(url) + 1))
    IN \E k \in DOMAIN matches : matches[k] # {}

\* any(domain in url.lower() for domain in ['snapchat.com', 'snap.chat'])
from_snapchat_domain(url) ==
    Contains(ToLower(url), SNAPCHAT_COM) \/ Contains(ToLower(url), SNAP_CHAT)

----------------------------------------------------------------------------
(* Page URLs a caller may send *)

HTTPS == HTTP \o <<"s">> \o COLON_SLASHES
URL_STORY == HTTPS \o STORY_DOT \o SNAPCHAT_COM \o SLASH_S \o <<"a","b">>
URL_STORY_P == HTTPS \o STORY_DOT \o SNAPCHAT_COM \o SLASH_P \o <<"a","b">>
URL_SPOTLIGHT == HTTPS \o WWW_DOT \o SNAPCHAT_COM \o SLASH_SPOTLIGHT \o <<"a","b">>
URL_SHORT == HTTPS \o T_DOT \o SNAPCHAT_COM \o <<"/","a","b">>
URL_SNAP_CHAT == HTTP \o COLON_SLASHES \o SNAP_CHAT \o SLASH_T \o <<"a","b">>
URL_UPPER == HTTPS \o <<"S">> \o Tail(SNAPCHAT_COM) \o SLASH_T \o <<"a","b">>
URL_BARE == HTTPS \o SNAPCHAT_COM
URL_EVIL == HTTPS \o <<"e","v","i","l",".","c","o","m","/","v">>
URL_EVIL_QUERY == HTTPS \o <<"e","v","i","l",".","c","o","m","/","?","u","=">> \o SNAPCHAT_COM
URL_EVIL_STORY == HTTPS \o <<"e","v","i","l",".","c","o","m","/","?","u","=">> \o URL_STORY
NOT_A_URL == <<"n","o","t","-","a","-","u","r","l">>
URL_PADDED == <<" ">> \o URL_STORY \o <<" ">>
URL_BLANK == <<" ", " ">>
URL_EMPTY == <<>>

----------------------------------------------------------------------------
(* What the extraction engine may report *)

M3U8_NATIVE == M3U8 \o <<"_","n","a","t","i","v","e">>
HTTPS_PROTO == HTTP \o <<"s">>
WEBM == <<"w","e","b","m">>
VP9 == <<"v","p","9">>
CDN == HTTPS \o <<"c","/">>

\* the largest number of variants the engine reports in one reply
MaxFormats == 6

\* the kinds of variant the engine reports: an HLS manifest, a direct MP4
\* rendition, a taller direct non-MP4 rendition, and a manifest entry without a URL
FormatKinds ==
    { [suffix |-> DOT_M3U8, ext |-> M3U8, protocol |-> M3U8_NATIVE, vcodec |-> H264, height |-> 720],
      [suffix |-> <<".">> \o MP4, ext |-> MP4, protocol |-> HTTPS_PROTO, vcodec |-> H264, height |-> 720],
      [suffix |-> <<".">> \o WEBM, ext |-> WEBM, protocol |-> HTTPS_PROTO, vcodec |-> VP9, height |-> 1080],
      [suffix |-> <<>>, ext |-> M3U8, protocol |-> M3U8, vcodec |-> H264, height |-> 720],
      [suffix |-> <<".">> \o MP4, ext |-> MP4, protocol |-> HLS, vcodec |-> H264, height |-> 480] }

\* the i-th variant of a reply, of kind k: its format_id and URL are its own
EngineFormat(i, k) ==
    [ format_id |-> <<"f", DigitSeq[i + 1]>>,
      url       |-> IF k.suffix = <<>> THEN None ELSE CDN \o <<DigitSeq[i + 1]>> \o k.suffix,
      ext       |-> k.ext,
      protocol  |-> k.protocol,
      vcodec    |-> k.vcodec,
      height    |-> k.height ]

\* info['formats'] of up to n variants
EngineFormats(kinds, n) ==
    UNION { { [i \in 1..m |-> EngineFormat(i, ks[i])] : ks \in [1..m -> kinds] } : m \in 0..n }

TOP_URL == CDN \o <<"t", "o", "p">>

\* the info dict of ytdl.extract_info for a page url, its top-level url among tops
EngineInfos(url, tops, kinds, n) ==
    { [url |-> top, webpage_url |-> url, formats |-> fs] : top \in tops, fs \in EngineFormats(kinds, n) }

\* ytdl.extract_info(url, download=False): an info dict, None, or an exception
EngineReplies(url, tops, kinds, n) ==
    { [kind |-> "info", info |-> i] : i \in EngineInfos(url, tops, kinds, n) }
    \cup { [kind |-> "None"], [kind |-> "raise"] }

----------------------------------------------------------------------------
(* SnapchatExtractor.extract_video_info *)

\* the number of variants returned to the caller
MaxReturned == 5

\* is_hls of one engine variant
is_hls(fmt) ==
    \/ EndsWith(Get(fmt.url, <<>>), DOT_M3U8)
    \/ fmt.protocol = M3U8
    \/ Contains(ToLower(Str(Get(fmt.protocol, <<>>))), HLS)
    \/ fmt.ext = M3U8

\* the elif test: an MP4-family variant
is_mp4_family(fmt) ==
    \/ fmt.ext = MP4
    \/ Contains(Str(Get(fmt.url, <<>>)), MP4)
    \/ StartsWith(Get(fmt.vcodec, <<>>), H264)

\* format_info of a variant that is not converted
format_info(fmt) ==
    [ format_id |-> Get(fmt.format_id, <<"u","n","k","n","o","w","n">>),
      url       |-> fmt.url,
      ext       |-> Get(fmt.ext, MP4),
      height    |-> fmt.height,
      vcodec    |-> fmt.vcodec,
      protocol  |-> fmt.protocol ]

\* the extension retargeted before it is saved: original_ext reads the new value
hls_format_info_ext_lost(fmt) ==
    [ format_id        |-> format_info(fmt).format_id,
      url              |-> format_info(fmt).url,
      ext              |-> MP4,
      height           |-> format_info(fmt).height,
      vcodec           |-> format_info(fmt).vcodec,
      protocol         |-> format_info(fmt).protocol,
      needs_conversion |-> TRUE,
      original_ext     |-> MP4 ]

\* format_info of an HLS variant of a story: flagged, its extension retargeted
hls_format_info(fmt) ==
    [ format_id        |-> format_info(fmt).format_id,
      url              |-> format_info(fmt).url,
      ext              |-> MP4,
      height           |-> format_info(fmt).height,
      vcodec           |-> format_info(fmt).vcodec,
      protocol         |-> format_info(fmt).protocol,
      needs_conversion |-> TRUE,
      original_ext     |-> format_info(fmt).ext ]

\* the three lists the loop fills
NoGroups == [hls_formats |-> <<>>, mp4_formats |-> <<>>, other_formats |-> <<>>]

\* the loop body with the story test left out of the HLS branch
loop_body_hls_for_all(groups, fmt, is_story, ffmpeg) ==
    IF ~Truthy(fmt.url) THEN groups
    ELSE IF is_hls(fmt)
    THEN IF ffmpeg
         THEN [groups EXCEPT !.mp4_formats = Append(@, hls_format_info(fmt))]
         ELSE groups
    ELSE IF is_mp4_family(fmt)
    THEN [groups EXCEPT !.mp4_formats = Append(@, format_info(fmt))]
    ELSE [groups EXCEPT !.other_formats = Append(@, format_info(fmt))]

\* one pass of the loop body over a variant
loop_body(groups, fmt, is_story, ffmpeg) ==
    IF ~Truthy(fmt.url) THEN groups
    ELSE IF is_hls(fmt)
    THEN IF is_story /\ ffmpeg
         THEN [groups EXCEPT !.hls_formats = Append(@, hls_format_info(fmt))]
         ELSE groups
    ELSE IF is_mp4_family(fmt)
    THEN [groups EXCEPT !.mp4_formats = Append(@, format_info(fmt))]
    ELSE [groups EXCEPT !.other_formats = Append(@, format_info(fmt))]

\* for fmt in info['formats']: the lists after the first n variants
RECURSIVE loop(_, _, _, _)
loop(formats, n, is_story, ffmpeg) ==
    IF n = 0 THEN NoGroups
    ELSE loop_body(loop(formats, n - 1, is_story, ffmpeg), formats[n], is_story, ffmpeg)

\* s[:n]
Take(s, n) == SubSeq(s, 1, IF Len(s) < n THEN Len(s) ELSE n)

\* the groups concatenated in the order used for spotlight content
story_order_mp4_first(hls, mp4, other) == mp4 \o hls \o other

\* the order in which a story's groups are concatenated
story_order(hls, mp4, other) == hls \o mp4 \o other

\* video_info['formats']
returned_formats(info, is_story, ffmpeg) ==
    IF info.formats # <<>>
    THEN LET g == loop(info.formats, Len(info.formats), is_story, ffmpeg)
         IN IF is_story
            THEN Take(story_order(g.hls_formats, g.mp4_formats, g.other_formats), MaxReturned)
            ELSE Take(g.mp4_formats \o g.other_formats, MaxReturned)
    ELSE <<>>

\* mediaUrl left as it was initialised from the engine's top-level fields
media_url_top_level_kept(info, formats) ==
    IF Truthy(info.url) THEN info.url
    ELSE IF info.webpage_url = Absent THEN None ELSE info.webpage_url

\* video_info['mediaUrl'] given the returned formats
media_url(info, formats) ==
    IF formats # <<>>
    THEN IF \E i \in 1..Len(formats) : formats[i].ext = MP4
         THEN formats[CHOOSE i \in 1..Len(formats) :
                        /\ formats[i].ext = MP4
                        /\ \A j \in 1..(i - 1) : formats[j].ext # MP4].url
         ELSE formats[1].url
    ELSE IF Truthy(info.url) THEN info.url
         ELSE IF info.webpage_url = Absent THEN None ELSE info.webpage_url

\* the gate that only logs: no url is refused
rejects_url_log_only(url) == FALSE

\* the gate before the engine is called: TRUE when ValueError("URL must be from Snapchat")
rejects_url(url) == ~is_valid_snapchat_url(url) /\ ~from_snapchat_domain(url)

MSG_MUST_BE_SNAPCHAT == "URL must be from Snapchat"
MSG_COULD_NOT_EXTRACT == "Could not extract video information"
MSG_ENGINE == "engine error"

Returned(v) == [raised |-> "none", error |-> "", value |-> v]
Raised(exc, msg) == [raised |-> exc, error |-> msg, value |-> None]

\* extract_video_info(url) once ytdl.extract_info has answered with reply
extract_video_info(url, reply, ffmpeg) ==
    IF reply.kind = "raise" THEN Raised("Exception", MSG_ENGINE)
    ELSE IF reply.kind = "None" THEN Raised("ValueError", MSG_COULD_NOT_EXTRACT)
    ELSE LET formats == returned_formats(reply.info, is_story_url(url), ffmpeg)
         IN Returned([ success  |-> TRUE,
                       mediaUrl |-> media_url(reply.info, formats),
                       formats  |-> formats ])

----------------------------------------------------------------------------
(* POST /api/extract and POST /api/formats *)

\* request.get_json(): nothing, an object without "url", or an object with a url string
Body(u) == [kind |-> "url", url |-> u]
BODY_NONE == [kind |-> "none", url |-> <<>>]
BODY_NO_URL == [kind |-> "no_url", url |-> <<>>]

NoResp == [status |-> 0]
NoReply == [kind |-> "pending"]
NoReq == [endpoint |-> "", data |-> BODY_NONE, url |-> <<>>]

ErrorBody(msg) == [success |-> FALSE, error |-> msg]
Http(status, body) == [status |-> status, body |-> body]

\* the except clauses of extract_video
extract_video_except(r) ==
    IF r.raised = "ValueError"
    THEN Http(400, ErrorBody(<<r.error>>))
    ELSE Http(500, ErrorBody(<<"Failed to extract video: ", r.error>>))

\* the except clause of get_available_formats
get_available_formats_except(r) ==
    Http(500, ErrorBody(<<"Failed to get formats: ", r.error>>))

\* a request ends with a response
Respond(req, called, reply, resp) ==
    /\ epc' = "done"
    /\ ereq' = req
    /\ engine_called' = called
    /\ ereply' = reply
    /\ eresp' = resp

\* the ValueError of the gate of extract_video_info
RaisedByGate == Raised("ValueError", MSG_MUST_BE_SNAPCHAT)

\* extract_video_info up to its call of ytdl.extract_info: the handler answers
\* refused, its response to RaisedByGate, when the url is refused, and waits for
\* the engine otherwise
CallExtractor(req, refused) ==
    IF rejects_url(req.url)
    THEN Respond(req, FALSE, NoReply, refused)
    ELSE /\ epc' = "engine"
         /\ ereq' = req
         /\ engine_called' = TRUE
         /\ ereply' = NoReply
         /\ eresp' = NoResp

\* extract_video, from the request to the call of the engine or an early answer
extract_video_request(Bodies) ==
    /\ epc = "idle"
    /\ \E data \in Bodies :
         LET req == [endpoint |-> "/api/extract", data |-> data, url |-> Strip(data.url)]
         IN IF data.kind # "url"
            THEN Respond(req, FALSE, NoReply, Http(400, ErrorBody(<<"URL is required">>)))
            ELSE IF req.url = <<>>
            THEN Respond(req, FALSE, NoReply, Http(400, ErrorBody(<<"URL cannot be empty">>)))
            ELSE CallExtractor(req, extract_video_except(RaisedByGate))
    /\ UNCHANGED <<ffmpeg_available, download_vars>>

\* extract_video, from the engine's answer to the response
extract_video_response(reply) ==
    /\ epc = "engine"
    /\ ereq.endpoint = "/api/extract"
    /\ LET r == extract_video_info(ereq.url, reply, ffmpeg_available)
       IN Respond(ereq, TRUE, reply, IF r.raised = "none" THEN Http(200, r.value)
                                     ELSE extract_video_except(r))
    /\ UNCHANGED <<ffmpeg_available, download_vars>>

\* get_available_formats, from the request to the call of the engine or an early answer
get_available_formats_request(Bodies) ==
    /\ epc = "idle"
    /\ \E data \in Bodies :
         LET req == [endpoint |-> "/api/formats", data |-> data, url |-> Strip(data.url)]
         IN IF data.kind # "url"
            THEN Respond(req, FALSE, NoReply, Http(400, ErrorBody(<<"URL is required">>)))
            ELSE CallExtractor(req, get_available_formats_except(RaisedByGate))
    /\ UNCHANGED <<ffmpeg_available, download_vars>>

\* get_available_formats, from the engine's answer to the response
get_available_formats_response(reply) ==
    /\ epc = "engine"
    /\ ereq.endpoint = "/api/formats"
    /\ LET r == extract_video_info(ereq.url, reply, ffmpeg_available)
       IN Respond(ereq, TRUE, reply,
                  IF r.raised = "none"
                  THEN Http(200, [success |-> TRUE, formats |-> r.value.formats])
                  ELSE get_available_formats_except(r))
    /\ UNCHANGED <<ffmpeg_available, download_vars>>

ExtractInit ==
    /\ epc = "idle"
    /\ ereq = NoReq
    /\ engine_called = FALSE
    /\ ereply = NoReply
    /\ eresp = NoResp

----------------------------------------------------------------------------
(* The temp directory and the clock *)

\* the last second the wall clock shows
MaxTime == 1

\* the number of requests served at the same time (app.run(threaded=True))
MaxThreads == 2

Threads == 1..MaxThreads
Seconds == 0..MaxTime

TEMP_DIR == <<"/","t","m","p">>
SNAPCHAT_STORY_ == <<"s","n","a","p","c","h","a","t","_","s","t","o","r","y","_">>
SNAPCHAT_VIDEO_ == <<"s","n","a","p","c","h","a","t","_","v","i","d","e","o","_">>
DOT_MP4 == <<".">> \o MP4
UNDERSCORE_MP4 == <<"_">> \o MP4

\* datetime.now().strftime("%Y%m%d_%H%M%S"): one text per second
strftime(second) == <<DigitSeq[second + 1]>>

\* os.path.join(config.TEMP_DIR, f'snapchat_story_{timestamp}.mp4')
story_path(timestamp) == TEMP_DIR \o <<"/">> \o SNAPCHAT_STORY_ \o timestamp \o DOT_MP4

\* os.path.join(config.TEMP_DIR, f'snapchat_video_{timestamp}.%(ext)s') once yt-dlp fills in mp4
video_path(timestamp) == TEMP_DIR \o <<"/">> \o SNAPCHAT_VIDEO_ \o timestamp \o DOT_MP4

Paths == {story_path(strftime(s)) : s \in Seconds} \cup {video_path(strftime(s)) : s \in Seconds}

\* os.path.exists(path), and os.path.getsize(path) > 0
exists(fs, path) == path \in DOMAIN fs /\ fs[path] # "absent"
nonempty(fs, path) == path \in DOMAIN fs /\ fs[path] = "data"

----------------------------------------------------------------------------
(* SnapchatExtractor._convert_hls_to_mp4 *)

MSG_FFMPEG_UNAVAILABLE == "FFmpeg is not available for HLS conversion"
MSG_TIMED_OUT == "Video conversion timed out"
MSG_CONVERSION_FAILED == "Video conversion failed: stderr"
MSG_EMPTY_OUTPUT == "FFmpeg conversion failed - output file is empty or doesn't exist"

\* the availability test left out
convert_refused_never(available) == FALSE

\* the first statement: TRUE when the call raises before it builds a command
convert_refused(available) == ~available

\* how subprocess.run may end
ExitKinds == {"exit0", "nonzero", "timeout"}

\* subprocess.run without check=True: a non-zero exit goes on to the file test
convert_outcome_unchecked(exit, fs, output_path) ==
    IF exit = "timeout" THEN MSG_TIMED_OUT
    ELSE IF exists(fs, output_path) /\ nonempty(fs, output_path) THEN ""
    ELSE MSG_EMPTY_OUTPUT

\* TimeoutExpired caught by the clause meant for CalledProcessError
convert_outcome_timeout_as_exit(exit, fs, output_path) ==
    IF exit \in {"timeout", "nonzero"} THEN MSG_CONVERSION_FAILED
    ELSE IF exists(fs, output_path) /\ nonempty(fs, output_path) THEN ""
    ELSE MSG_EMPTY_OUTPUT

\* what follows subprocess.run: "" when output_path is returned, the message
\* of the RuntimeError raised otherwise
convert_outcome(exit, fs, output_path) ==
    IF exit = "timeout" THEN MSG_TIMED_OUT
    ELSE IF exit = "nonzero" THEN MSG_CONVERSION_FAILED
    ELSE IF exists(fs, output_path) /\ nonempty(fs, output_path) THEN ""
    ELSE MSG_EMPTY_OUTPUT

----------------------------------------------------------------------------
(* Request threads: GET /api/download and SnapchatExtractor.download_video *)

NoResult == [kind |-> "none", status |-> 0, error |-> <<>>, path |-> <<>>, sent |-> "none"]
HttpError(status, msg) == [kind |-> "http", status |-> status, error |-> msg, path |-> <<>>, sent |-> "none"]
\* send_file(path): a 200 whose body is the file as it is on disk
HttpFile(path, state) == [kind |-> "http", status |-> 200, error |-> <<>>, path |-> path, sent |-> state]
\* a proxied remote body
HttpStream == [kind |-> "http", status |-> 200, error |-> <<>>, path |-> <<>>, sent |-> "remote"]
Return(path) == [kind |-> "return", status |-> 0, error |-> <<>>, path |-> path, sent |-> "none"]
Raise(exc, msg) == [kind |-> "raise", status |-> 0, error |-> <<exc, msg>>, path |-> <<>>, sent |-> "none"]

IdleThread ==
    [ op |-> "none", pc |-> "idle", video_url |-> <<>>, original_url |-> <<>>,
      format_id |-> <<>>, output_path |-> <<>>, proc |-> "none", exit |-> "none", result |-> NoResult ]

Done(rec, result) == [rec EXCEPT !.pc = "done", !.result = result]

\* an exception raised inside _convert_hls_to_mp4, as its caller reports it:
\* the route's inner except answers 500, the method lets it through
convert_raised(rec, msg) ==
    IF rec.op = "route"
    THEN Done(rec, HttpError(500, <<"Video conversion failed: ", msg>>))
    ELSE Done(rec, Raise("RuntimeError", msg))

\* the call _convert_hls_to_mp4(hls_url, output_path) up to subprocess.run
convert_call(t, rec) ==
    IF convert_refused(ffmpeg_available)
    THEN /\ thr' = [thr EXCEPT ![t] = convert_raised(rec, MSG_FFMPEG_UNAVAILABLE)]
         /\ UNCHANGED ffmpeg_runs
    ELSE /\ thr' = [thr EXCEPT ![t] = [rec EXCEPT !.pc = "ffmpeg", !.proc = "started"]]
         /\ ffmpeg_runs' = [ffmpeg_runs EXCEPT ![t] = @ + 1]

\* datetime.now() read as second: the clock never runs backwards
datetime_now(second) == second \in Seconds /\ now <= second

\* a request arrives: threads are numbered in the order their requests arrive
arrives(t) == thr[t].pc = "idle" /\ \A u \in Threads : u < t => thr[u].pc # "idle"

HLS_URL == CDN \o <<"1">> \o DOT_M3U8
DIRECT_URL == CDN \o <<"1">> \o DOT_MP4
\* a local path that holds "m3u8" but does not end in ".m3u8"
LOCAL_M3U8 == TEMP_DIR \o <<"/">> \o M3U8 \o <<"/", "a">>
BACKSLASH_DRIVE == <<":", "\\">>

\* the test of the route's elif: a local file path
is_local_path(video_url) ==
    \/ StartsWith(video_url, <<"/">>)
    \/ (Len(video_url) > 3 /\ SubSeq(video_url, 2, 3) = BACKSLASH_DRIVE)

\* the first if with only its endswith test
mentions_m3u8_suffix_only(video_url) == EndsWith(video_url, DOT_M3U8)

\* the test of the route's first if, without original_url
mentions_m3u8(video_url) == EndsWith(video_url, DOT_M3U8) \/ Contains(video_url, M3U8)

\* GET /api/download: from the request to its first blocking call or an early answer
download_video_request(t, video_url, original_url, second) ==
    LET rec == [IdleThread EXCEPT !.op = "route", !.video_url = video_url,
                                  !.original_url = original_url]
    IN /\ arrives(t)
       /\ IF ~Truthy(video_url)
          THEN /\ thr' = [thr EXCEPT ![t] = Done(rec, HttpError(400, <<"URL parameter is required">>))]
               /\ UNCHANGED <<now, ffmpeg_runs, remote_fetches>>
          ELSE IF mentions_m3u8(video_url) /\ Truthy(original_url)
          THEN IF is_story_url(original_url) /\ ffmpeg_available
               THEN /\ datetime_now(second)
                    /\ now' = second
                    /\ convert_call(t, [rec EXCEPT !.output_path = story_path(strftime(second))])
                    /\ UNCHANGED remote_fetches
               ELSE /\ thr' = [thr EXCEPT ![t] =
                                 Done(rec, HttpError(500, <<"M3U8 conversion not available (FFmpeg required)">>))]
                    /\ UNCHANGED <<now, ffmpeg_runs, remote_fetches>>
          ELSE IF is_local_path(video_url)
          THEN /\ IF exists(files, video_url)
                  THEN thr' = [thr EXCEPT ![t] = [rec EXCEPT !.pc = "send_local"]]
                  ELSE thr' = [thr EXCEPT ![t] = Done(rec, HttpError(404, <<"Converted file not found">>))]
               /\ UNCHANGED <<now, ffmpeg_runs, remote_fetches>>
          ELSE /\ thr' = [thr EXCEPT ![t] = [rec EXCEPT !.pc = "fetch"]]
               /\ remote_fetches' = [remote_fetches EXCEPT ![t] = @ + 1]
               /\ UNCHANGED <<now, ffmpeg_runs>>
       /\ UNCHANGED <<ffmpeg_available, extract_vars, files>>

\* the encoder opens its output: -y overwrites, so the file is there and empty
ffmpeg_opens_output(t) ==
    /\ thr[t].pc = "ffmpeg"
    /\ thr[t].proc = "started"
    /\ files' = [files EXCEPT ![thr[t].output_path] = "empty"]
    /\ thr' = [thr EXCEPT ![t].proc = "opened"]
    /\ UNCHANGED <<ffmpeg_available, extract_vars, now, ffmpeg_runs, remote_fetches>>

\* the encoder writes media to its output; an unlinked output stays unlinked
ffmpeg_writes_output(t) ==
    /\ thr[t].pc = "ffmpeg"
    /\ thr[t].proc = "opened"
    /\ files' = [files EXCEPT ![thr[t].output_path] = IF @ = "absent" THEN "absent" ELSE "data"]
    /\ thr' = [thr EXCEPT ![t].proc = "written"]
    /\ UNCHANGED <<ffmpeg_available, extract_vars, now, ffmpeg_runs, remote_fetches>>

\* subprocess.run ends and _convert_hls_to_mp4 returns the path or raises
convert_finish(t, exit) ==
    /\ thr[t].pc = "ffmpeg"
    /\ LET msg == convert_outcome(exit, files, thr[t].output_path)
           rec == [thr[t] EXCEPT !.proc = "none", !.exit = exit]
       IN thr' = [thr EXCEPT ![t] =
                    IF msg # "" THEN convert_raised(rec, msg)
                    ELSE IF rec.op = "route" THEN [rec EXCEPT !.pc = "send_converted"]
                    ELSE Done(rec, Return(rec.output_path))]
    /\ UNCHANGED <<ffmpeg_available, extract_vars, now, files, ffmpeg_runs, remote_fetches>>

\* the route's send_file(converted_path): a file that is gone raises inside the inner try
send_converted(t) ==
    /\ thr[t].pc = "send_converted"
    /\ thr' = [thr EXCEPT ![t] =
                 IF exists(files, thr[t].output_path)
                 THEN Done(thr[t], HttpFile(thr[t].output_path, files[thr[t].output_path]))
                 ELSE Done(thr[t], HttpError(500, <<"Video conversion failed: ", "No such file">>))]
    /\ UNCHANGED <<ffmpeg_available, extract_vars, now, files, ffmpeg_runs, remote_fetches>>

\* the route's send_file(video_url) after os.path.exists: a file that is gone
\* raises, and the outer except Exception answers
send_local(t) ==
    /\ thr[t].pc = "send_local"
    /\ thr' = [thr EXCEPT ![t] =
                 IF exists(files, thr[t].video_url)
                 THEN Done(thr[t], HttpFile(thr[t].video_url, files[thr[t].video_url]))
                 ELSE Done(thr[t], HttpError(500, <<"Download failed: ", "No such file">>))]
    /\ UNCHANGED <<ffmpeg_available, extract_vars, now, files, ffmpeg_runs, remote_fetches>>

\* requests.get answers, or raises a RequestException
fetch_finish(t, ok) ==
    /\ thr[t].pc = "fetch"
    /\ thr' = [thr EXCEPT ![t] =
                 IF ok THEN Done(thr[t], HttpStream)
                 ELSE Done(thr[t], HttpError(500, <<"Failed to download video: ", "request error">>))]
    /\ UNCHANGED <<ffmpeg_available, extract_vars, now, files, ffmpeg_runs, remote_fetches>>

\* the most variants the engine reports to SnapchatExtractor.download_video
MaxMethodFormats == 1

\* s.replace(old, ''): every occurrence of old removed, left to right
RECURSIVE Remove(_, _)
Remove(s, old) ==
    IF s = <<>> THEN <<>>
    ELSE IF HasAt(s, 1, old) THEN Remove(SubSeq(s, Len(old) + 1, Len(s)), old)
    ELSE <<Head(s)>> \o Remove(Tail(s), old)

\* next((f for f in info['formats'] if f.get('format_id') == original_format_id), None)
find_format(formats, original_format_id) ==
    LET hits == {i \in 1..Len(formats) : formats[i].format_id = original_format_id}
    IN IF hits = {} THEN None
       ELSE formats[CHOOSE i \in hits : \A j \in hits : i <= j].url

\* SnapchatExtractor.download_video(url, format_id): up to its first engine call
extractor_download_request(t, url, format_id, second) ==
    LET rec == [IdleThread EXCEPT !.op = "method", !.original_url = url, !.format_id = format_id]
    IN /\ arrives(t)
       /\ datetime_now(second)
       /\ now' = second
       /\ IF is_story_url(url) /\ Truthy(format_id) /\ EndsWith(format_id, UNDERSCORE_MP4)
          THEN thr' = [thr EXCEPT ![t] =
                         [rec EXCEPT !.pc = "ytdl_info", !.output_path = story_path(strftime(second))]]
          ELSE thr' = [thr EXCEPT ![t] =
                         [rec EXCEPT !.pc = "ytdl_download", !.output_path = video_path(strftime(second))]]
       /\ UNCHANGED <<ffmpeg_available, extract_vars, files, ffmpeg_runs, remote_fetches>>

\* the engine answers the method's extract_info(url, download=False); the HLS
\* variant is looked up and handed to _convert_hls_to_mp4
extractor_info_finish(t, reply) ==
    /\ thr[t].pc = "ytdl_info"
    /\ LET rec == thr[t]
           hls_url == find_format(reply.info.formats, Remove(rec.format_id, UNDERSCORE_MP4))
       IN IF reply.kind = "raise"
          THEN /\ thr' = [thr EXCEPT ![t] = Done(rec, Raise("Exception", MSG_ENGINE))]
               /\ UNCHANGED ffmpeg_runs
          ELSE IF reply.kind = "None"
          THEN /\ thr' = [thr EXCEPT ![t] = Done(rec, Raise("ValueError", MSG_COULD_NOT_EXTRACT))]
               /\ UNCHANGED ffmpeg_runs
          ELSE IF ~Truthy(hls_url)
          THEN /\ thr' = [thr EXCEPT ![t] = Done(rec, Raise("ValueError", "Could not find HLS format"))]
               /\ UNCHANGED ffmpeg_runs
          ELSE convert_call(t, [rec EXCEPT !.video_url = hls_url])
    /\ UNCHANGED <<ffmpeg_available, extract_vars, now, files, remote_fetches>>

\* how the engine's extract_info(url, download=True) may end
DownloadKinds == {"raise", "None", "written", "missing"}

\* the engine ends the regular download; the method looks for the file it named
extractor_download_finish(t, outcome) ==
    /\ thr[t].pc = "ytdl_download"
    /\ files' = IF outcome = "written" THEN [files EXCEPT ![thr[t].output_path] = "data"] ELSE files
    /\ thr' = [thr EXCEPT ![t] =
                 IF outcome = "raise" THEN Done(thr[t], Raise("Exception", MSG_ENGINE))
                 ELSE IF outcome = "None" THEN Done(thr[t], Raise("ValueError", "Could not download video"))
                 ELSE IF exists(files', thr[t].output_path) THEN Done(thr[t], Return(thr[t].output_path))
                 ELSE Done(thr[t], Raise("FileNotFoundError", "Downloaded file not found"))]
    /\ UNCHANGED <<ffmpeg_available, extract_vars, now, ffmpeg_runs, remote_fetches>>

\* a file of the temp directory is deleted by the janitor or the host's temp cleanup
tempfile_removed(path) ==
    /\ files[path] # "absent"
    /\ files' = [files EXCEPT ![path] = "absent"]
    /\ UNCHANGED <<ffmpeg_available, extract_vars, now, thr, ffmpeg_runs, remote_fetches>>

DownloadInit ==
    /\ now = 0
    /\ files = [p \in Paths |-> "absent"]
    /\ thr = [t \in Threads |-> IdleThread]
    /\ ffmpeg_runs = [t \in Threads |-> 0]
    /\ remote_fetches = [t \in Threads |-> 0]

----------------------------------------------------------------------------
(* Specifications *)

\* __init__: _check_ffmpeg finds the encoder or not
Init ==
    /\ ffmpeg_available \in BOOLEAN
    /\ ExtractInit
    /\ DownloadInit

Bodies == {BODY_NONE, BODY_NO_URL} \cup
          { Body(u) : u \in { URL_STORY, URL_STORY_P, URL_SPOTLIGHT, URL_SHORT, URL_SNAP_CHAT,
                              URL_UPPER, URL_BARE, URL_EVIL, URL_EVIL_QUERY, URL_EVIL_STORY,
                              NOT_A_URL, URL_PADDED, URL_BLANK, URL_EMPTY } }

FewBodies == {BODY_NO_URL, Body(URL_STORY), Body(URL_SPOTLIGHT), Body(NOT_A_URL)}

\* the largest reply of the engine where the variants themselves are not at stake
MaxFewFormats == 2

\* short replies, with and without a top-level url
FewReplies(url) == EngineReplies(url, {Absent, TOP_URL}, FormatKinds, MaxFewFormats)
\* the kinds of variant that carry a url and are told apart by their extension
UrlKinds == {k \in FormatKinds : k.suffix # <<>> /\ k.protocol # HLS}

\* the short replies, and every longer one of variants with a url and without a
\* top-level url
AllReplies(url) == FewReplies(url) \cup EngineReplies(url, {Absent}, UrlKinds, MaxFormats)

\* the engine answers only a call that is waiting for it
Awaited(replies) == IF epc = "engine" THEN replies ELSE {}

\* requests of every shape, short engine replies
NextValidate ==
    \/ extract_video_request(Bodies)
    \/ \E reply \in Awaited(FewReplies(ereq.url)) : extract_video_response(reply)
    \/ get_available_formats_request(Bodies)
    \/ \E reply \in Awaited(FewReplies(ereq.url)) : get_available_formats_response(reply)

SpecValidate == Init /\ [][NextValidate]_vars

\* few requests, engine replies of every shape
NextFormats ==
    \/ extract_video_request(FewBodies)
    \/ \E reply \in Awaited(AllReplies(ereq.url)) : extract_video_response(reply)
    \/ get_available_formats_request(FewBodies)
    \/ \E reply \in Awaited(FewReplies(ereq.url)) : get_available_formats_response(reply)

SpecFormats == Init /\ [][NextFormats]_vars

\* the query strings of GET /api/download: <<url, original_url>>
DownloadArgs ==
    { <<None, <<>>>>, <<HLS_URL, URL_STORY>>, <<LOCAL_M3U8, URL_SPOTLIGHT>>, <<HLS_URL, <<>>>>,
      <<DIRECT_URL, URL_STORY>>, <<story_path(strftime(0)), <<>>>>, <<LOCAL_M3U8, <<>>>> }

\* the query strings that ask for a conversion
ConversionArgs == {a \in DownloadArgs : mentions_m3u8(a[1]) /\ Truthy(a[2])}

\* the arguments of extractor.download_video: <<url, format_id>>
MethodArgs ==
    { <<URL_STORY, <<"f","1">> \o UNDERSCORE_MP4>>, <<URL_STORY, None>>,
      <<URL_SPOTLIGHT, <<"f","1">> \o UNDERSCORE_MP4>> }

NextDownload ==
    \/ \E t \in Threads, a \in DownloadArgs, second \in Seconds :
          download_video_request(t, a[1], a[2], second)
    \/ \E t \in Threads : ffmpeg_opens_output(t)
    \/ \E t \in Threads : ffmpeg_writes_output(t)
    \/ \E t \in Threads, exit \in ExitKinds : convert_finish(t, exit)
    \/ \E t \in Threads : send_converted(t)
    \/ \E t \in Threads : send_local(t)
    \/ \E t \in Threads, ok \in BOOLEAN : fetch_finish(t, ok)
    \/ \E p \in Paths : tempfile_removed(p)

SpecDownload == Init /\ [][NextDownload]_vars

\* the manifests among the kinds of variant: with a url and without
ManifestKinds == {k \in FormatKinds : k.ext = M3U8}

\* no thread has called extractor.download_video
method_uncalled == \A u \in Threads : thr[u].op # "method"

\* one direct call of extractor.download_video (no route calls it) next to
\* conversion requests of GET /api/download, the temp directory shared
NextMethod ==
    \/ \E t \in Threads, a \in ConversionArgs, second \in Seconds :
          download_video_request(t, a[1], a[2], second)
    \/ \E t \in Threads, a \in MethodArgs, second \in Seconds :
          method_uncalled /\ extractor_download_request(t, a[1], a[2], second)
    \/ \E t \in Threads :
          \E reply \in EngineReplies(thr[t].original_url, {Absent}, ManifestKinds, MaxMethodFormats) :
             extractor_info_finish(t, reply)
    \/ \E t \in Threads, outcome \in DownloadKinds : extractor_download_finish(t, outcome)
    \/ \E t \in Threads : ffmpeg_opens_output(t)
    \/ \E t \in Threads : ffmpeg_writes_output(t)
    \/ \E t \in Threads, exit \in ExitKinds : convert_finish(t, exit)
    \/ \E t \in Threads : send_converted(t)
    \/ \E p \in Paths : tempfile_removed(p)

SpecMethod == Init /\ [][NextMethod]_vars

----------------------------------------------------------------------------
(* Properties *)

\* the request of the extraction endpoints carried a url string
HasUrl == epc # "idle" /\ ereq.data.kind = "url"

\* C1 as stated: a url that matches none of the patterns of is_valid_snapchat_url
\* never reaches ytdl.extract_info.
C1_NoPatternNoEngineCall ==
    (HasUrl /\ ~is_valid_snapchat_url(ereq.url)) => ~engine_called

\* C1 amended: a url that matches no pattern and does not hold "snapchat.com" or
\* "snap.chat" in any letter case never reaches ytdl.extract_info: the request is
\* answered with an error, 400 by /api/extract and 500 by /api/formats, and but
\* for the empty url that /api/extract refuses itself, the error is the
\* "URL must be from Snapchat" of extract_video_info.
C1_ForeignUrlRejectedBeforeEngine ==
    (HasUrl /\ ~is_valid_snapchat_url(ereq.url) /\ ~from_snapchat_domain(ereq.url))
       => /\ ~engine_called
          /\ epc = "done"
          /\ eresp.status = (IF ereq.endpoint = "/api/extract" THEN 400 ELSE 500)
          /\ eresp.body.success = FALSE
          /\ ~(ereq.endpoint = "/api/extract" /\ ereq.url = <<>>)
                => eresp.body.error[Len(eresp.body.error)] = MSG_MUST_BE_SNAPCHAT

\* C1 witness: a foreign url was refused by /api/extract and the engine was not called
C1_Witness ==
    /\ epc = "done"
    /\ ereq.endpoint = "/api/extract"
    /\ ereq.url = URL_EVIL
    /\ eresp.status = 400
    /\ ~engine_called

\* the thread served GET /api/download through its conversion branch
ConversionRoute(t) == thr[t].op = "route" /\ thr[t].output_path # <<>>

\* C2 as stated: a download answered with the converted file sends a file that
\* exists and is not empty at that moment, and a conversion whose encoder exited
\* non-zero or timed out is answered with 500.
C2_SuccessMeansNonEmptyOutput ==
    \A t \in Threads :
        /\ (ConversionRoute(t) /\ thr[t].result.status = 200) => thr[t].result.sent = "data"
        /\ (ConversionRoute(t) /\ thr[t].pc = "done" /\ thr[t].exit \in {"nonzero", "timeout"})
              => thr[t].result.status = 500

\* the thread started a conversion job: its encoder was run on its output path
ConversionJob(t) == ffmpeg_runs[t] > 0

\* C3 as stated: two conversion jobs never write to the same output path.
C3_DistinctOutputPaths ==
    \A t1, t2 \in Threads :
        (t1 # t2 /\ ConversionJob(t1) /\ ConversionJob(t2))
            => thr[t1].output_path # thr[t2].output_path

\* the place of a returned variant in the engine's list
EngineIndex(e) ==
    CHOOSE i \in 1..Len(ereply.info.formats) : ereply.info.formats[i].format_id = e.format_id

\* the group of an engine variant: 0 adaptive, 1 MP4 family, 2 other
Rank(fmt) == IF is_hls(fmt) THEN 0 ELSE IF is_mp4_family(fmt) THEN 1 ELSE 2

\* the extraction answered 200 with a formats list
Extracted == epc = "done" /\ eresp.status = 200

\* the group and the engine place of the i-th returned variant
Key(formats, i) ==
    LET at == EngineIndex(formats[i])
    IN <<Rank(ereply.info.formats[at]), at>>

\* the returned list keeps adaptive before MP4 before other, engine order inside
\* each group, and holds at most MaxReturned entries: each entry is followed by
\* one of a later group, or of its own group and later in the engine's list
OrderedAndBounded(formats) ==
    /\ Len(formats) <= MaxReturned
    /\ \A i \in 1..(Len(formats) - 1) :
          LET a == Key(formats, i)
              b == Key(formats, i + 1)
          IN a[1] < b[1] \/ (a[1] = b[1] /\ a[2] < b[2])

\* the engine reported an adaptive variant with a url, and a direct one with a url
HasAdaptive(fs) == \E i \in 1..Len(fs) : is_hls(fs[i]) /\ Truthy(fs[i].url)
HasDirect(fs) == \E i \in 1..Len(fs) : ~is_hls(fs[i]) /\ Truthy(fs[i].url)

\* C4 as stated: for a story url the returned list is ordered and bounded, and
\* when the engine reports an adaptive and a direct variant the first returned
\* entry is adaptive.
C4_StoryAdaptiveFirst ==
    (Extracted /\ is_story_url(ereq.url)) =>
        /\ OrderedAndBounded(eresp.body.formats)
        /\ (HasAdaptive(ereply.info.formats) /\ HasDirect(ereply.info.formats))
              => /\ eresp.body.formats # <<>>
                 /\ "needs_conversion" \in DOMAIN eresp.body.formats[1]

\* C4 amended: for a story url the returned list is ordered and bounded; when
\* the encoder is available and the engine reports an adaptive variant that has a
\* url, the first returned entry is adaptive; when the encoder is not available
\* no returned entry is adaptive.
C4_StoryAdaptiveFirstWithEncoder ==
    (Extracted /\ is_story_url(ereq.url)) =>
        /\ OrderedAndBounded(eresp.body.formats)
        /\ (ffmpeg_available /\ HasAdaptive(ereply.info.formats))
              => /\ eresp.body.formats # <<>>
                 /\ "needs_conversion" \in DOMAIN eresp.body.formats[1]
        /\ ~ffmpeg_available
              => \A i \in 1..Len(eresp.body.formats) :
                    "needs_conversion" \notin DOMAIN eresp.body.formats[i]

\* C4 witness: six variants with a direct one ahead of an adaptive one in engine
\* order were cut to five, the adaptive one first
C4_Witness ==
    /\ Extracted
    /\ is_story_url(ereq.url)
    /\ Len(ereply.info.formats) = MaxReturned + 1
    /\ ~is_hls(ereply.info.formats[1])
    /\ Truthy(ereply.info.formats[1].url)
    /\ is_hls(ereply.info.formats[2])
    /\ Len(eresp.body.formats) = MaxReturned
    /\ "needs_conversion" \in DOMAIN eresp.body.formats[1]
    /\ "needs_conversion" \notin DOMAIN eresp.body.formats[2]

\* the thread asked GET /api/download to convert a story's m3u8 url
AskedConversion(t) ==
    /\ thr[t].op = "route"
    /\ thr[t].pc = "done"
    /\ Truthy(thr[t].video_url)
    /\ mentions_m3u8(thr[t].video_url)
    /\ is_story_url(thr[t].original_url)

\* the thread's call of extractor.download_video reached _convert_hls_to_mp4
MethodReachedConvert(t) ==
    thr[t].op = "method" /\ thr[t].pc = "done" /\ Truthy(thr[t].video_url)

\* C5: without the encoder no encoder subprocess is ever started, GET
\* /api/download for a story's m3u8 url answers 500 with the encoder-required
\* error, and _convert_hls_to_mp4 raises its encoder-unavailable error.
C5_NoEncoderNoInvocation ==
    ~ffmpeg_available =>
        \A t \in Threads :
            /\ ffmpeg_runs[t] = 0
            /\ thr[t].pc # "ffmpeg"
            /\ AskedConversion(t) =>
                  thr[t].result = HttpError(500, <<"M3U8 conversion not available (FFmpeg required)">>)
            /\ MethodReachedConvert(t) =>
                  thr[t].result = Raise("RuntimeError", MSG_FFMPEG_UNAVAILABLE)

\* C5 witness: without the encoder, one request was refused by the route and one
\* call of _convert_hls_to_mp4 raised
C5_Witness ==
    /\ ~ffmpeg_available
    /\ \E t1, t2 \in Threads :
          /\ AskedConversion(t1)
          /\ thr[t1].result.status = 500
          /\ MethodReachedConvert(t2)
          /\ thr[t2].result.kind = "raise"

\* the request is a validation error: no url field, an empty url, or a url the
\* gate of extract_video_info refuses
ValidationError ==
    /\ epc = "done"
    /\ (ereq.data.kind # "url" \/ ereq.url = <<>> \/ rejects_url(ereq.url))

\* C6 as stated: on /api/extract and on /api/formats a validation error is
\* answered 400 with {success: false, error}.
C6_ValidationIs400 ==
    ValidationError => (eresp.status = 400 /\ eresp.body.success = FALSE)

\* the thread served GET /api/download through its local-file branch
LocalFileRoute(t) ==
    /\ thr[t].op = "route"
    /\ Truthy(thr[t].video_url)
    /\ ~(mentions_m3u8(thr[t].video_url) /\ Truthy(thr[t].original_url))
    /\ is_local_path(thr[t].video_url)

\* C7 as stated: a request for a local converted file ends in the file or in
\* 404, also when the file goes away during the request; never in 500.
C7_MissingFileIs404 ==
    \A t \in Threads :
        (LocalFileRoute(t) /\ thr[t].pc = "done") => thr[t].result.status \in {200, 404}

\* the thread's conversion failed
ConversionFailed(t) ==
    /\ thr[t].pc = "done"
    /\ \/ thr[t].result.kind = "raise"
       \/ thr[t].result.status = 500

DirectIndexes(fs) == {i \in 1..Len(fs) : Truthy(fs[i].url) /\ ~is_hls(fs[i])}

\* the tallest direct variant, the first of them in engine order
BestDirect(fs) ==
    CHOOSE i \in DirectIndexes(fs) :
        \A j \in DirectIndexes(fs) :
            \/ fs[j].height < fs[i].height
            \/ (fs[j].height = fs[i].height /\ i <= j)

\* C9 as stated: with a non-empty formats list, mediaUrl is the url of the
\* tallest direct variant, the first in engine order among equals, and the first
\* variant's url only when there is no direct variant.
C9_MediaUrlIsTallestDirect ==
    (Extracted /\ ereq.endpoint = "/api/extract" /\ eresp.body.formats # <<>>) =>
        LET fs == ereply.info.formats
        IN IF DirectIndexes(fs) # {}
           THEN eresp.body.mediaUrl = fs[BestDirect(fs)].url
           ELSE eresp.body.mediaUrl = eresp.body.formats[1].url

\* C10: a returned variant carries needs_conversion only when the engine variant
\* is adaptive, and then its ext is "mp4" and original_ext is the engine's ext;
\* without needs_conversion it has no original_ext and keeps the engine's ext.
C10_ConversionFlagAndExt ==
    Extracted =>
        \A i \in 1..Len(eresp.body.formats) :
            LET e == eresp.body.formats[i]
                f == ereply.info.formats[EngineIndex(e)]
            IN IF "needs_conversion" \in DOMAIN e
               THEN /\ e.needs_conversion = TRUE
                    /\ is_hls(f)
                    /\ e.ext = MP4
                    /\ "original_ext" \in DOMAIN e
                    /\ e.original_ext = f.ext
               ELSE /\ "original_ext" \notin DOMAIN e
                    /\ e.ext = f.ext

\* C10 witness: a returned list with a converted variant whose original_ext is
\* "m3u8" and an unconverted one that kept "webm"
C10_Witness ==
    /\ Extracted
    /\ \E i, j \in 1..Len(eresp.body.formats) :
          /\ "needs_conversion" \in DOMAIN eresp.body.formats[i]
          /\ eresp.body.formats[i].original_ext = M3U8
          /\ eresp.body.formats[i].ext = MP4
          /\ "needs_conversion" \notin DOMAIN eresp.body.formats[j]
          /\ eresp.body.formats[j].ext = WEBM

\* the returned variant would be detected as adaptive: by its url, protocol or ext
ReturnedAdaptive(e) == is_hls(e) \/ "needs_conversion" \in DOMAIN e

\* C11: for a url that is not story-type no returned variant is adaptive: none
\* has a url ending in .m3u8, a protocol that is m3u8 or holds "hls", or the ext
\* m3u8, and none carries needs_conversion, whatever the engine reported.
C11_NoAdaptiveForNonStory ==
    (Extracted /\ ~is_story_url(ereq.url)) =>
        \A i \in 1..Len(eresp.body.formats) : ~ReturnedAdaptive(eresp.body.formats[i])

\* C11 witness: for a spotlight url, with the encoder available, the engine
\* reported an mp4 served over hls ahead of a plain mp4, and only the plain one
\* was returned
C11_Witness ==
    /\ Extracted
    /\ ereq.url = URL_SPOTLIGHT
    /\ ffmpeg_available
    /\ Len(ereply.info.formats) = 2
    /\ ereply.info.formats[1].protocol = HLS
    /\ ereply.info.formats[1].ext = MP4
    /\ ereply.info.formats[2].protocol = HTTPS_PROTO
    /\ Len(eresp.body.formats) = 1
    /\ eresp.body.formats[1].url = ereply.info.formats[2].url

\* the thread's encoder subprocess timed out
TimedOut(t) == thr[t].exit = "timeout"

\* C12: a timeout of the encoder ends the conversion with "Video conversion
\* timed out", as a RuntimeError of _convert_hls_to_mp4 and inside the 500 of
\* GET /api/download, a message other than the one of a non-zero exit, and the
\* encoder has been started once for that job and is not started again.
C12_TimeoutIsDistinctAndFinal ==
    \A t \in Threads :
        TimedOut(t) =>
            /\ thr[t].pc = "done"
            /\ ffmpeg_runs[t] = 1
            /\ thr[t].result = (IF thr[t].op = "route"
                                THEN HttpError(500, <<"Video conversion failed: ", MSG_TIMED_OUT>>)
                                ELSE Raise("RuntimeError", MSG_TIMED_OUT))
            /\ thr[t].result # convert_raised(thr[t], MSG_CONVERSION_FAILED).result

\* C12 witness: a request of GET /api/download and a call of
\* extractor.download_video both ended in a timeout, each after one encoder run
C12_Witness ==
    \E t1, t2 \in Threads :
        /\ TimedOut(t1) /\ thr[t1].op = "route" /\ thr[t1].result.status = 500
        /\ TimedOut(t2) /\ thr[t2].op = "method" /\ thr[t2].result.kind = "raise"
        /\ ffmpeg_runs[t1] = 1 /\ ffmpeg_runs[t2] = 1

\* the urls of the returned variants
ReturnedUrls == {eresp.body.formats[i].url : i \in 1..Len(eresp.body.formats)}

\* the engine's top-level url and webpage_url
TopLevelUrls == {ereply.info.url, ereply.info.webpage_url}

\* C13: when the returned formats list is not empty, it has at most five
\* entries, each with a non-empty url, and mediaUrl is the url of one of them;
\* mediaUrl is the engine's top-level url or webpage_url only when the returned
\* list is empty.
C13_MediaUrlFromReturnedList ==
    Extracted =>
        /\ Len(eresp.body.formats) <= MaxReturned
        /\ \A u \in ReturnedUrls : Truthy(u)
        /\ ereq.endpoint = "/api/extract" =>
               /\ eresp.body.formats # <<>> => eresp.body.mediaUrl \in ReturnedUrls
               /\ eresp.body.mediaUrl \in TopLevelUrls => eresp.body.formats = <<>>

\* C13 witness: the engine gave a top-level url, a variant without a url and a
\* direct one; the variant without a url was dropped and mediaUrl is the url of
\* the returned variant, not the top-level url
C13_Witness ==
    /\ Extracted /\ ereq.endpoint = "/api/extract"
    /\ ereply.info.url = TOP_URL
    /\ Len(ereply.info.formats) = 2
    /\ ~Truthy(ereply.info.formats[1].url)
    /\ Len(eresp.body.formats) = 1
    /\ eresp.body.mediaUrl = ereply.info.formats[2].url
    /\ eresp.body.mediaUrl # TOP_URL

NOT_AVAILABLE == HttpError(500, <<"M3U8 conversion not available (FFmpeg required)">>)

\* the request went into the route's first branch: it is converting or sending
\* the converted file, or was answered by that branch
TookConversion(t) ==
    \/ thr[t].pc \in {"ffmpeg", "send_converted"}
    \/ /\ thr[t].pc = "done"
       /\ \/ thr[t].result = NOT_AVAILABLE
          \/ thr[t].result.status = 500 /\ thr[t].result.error[1] = "Video conversion failed: "
          \/ thr[t].result.status = 200 /\ thr[t].output_path # <<>>
                                         /\ thr[t].result.path = thr[t].output_path

\* the request went into the local-file branch: os.path.exists was asked about
\* video_url, and the file is being sent or the branch has answered
TookLocalFile(t) ==
    \/ thr[t].pc = "send_local"
    \/ /\ thr[t].pc = "done"
       /\ \/ thr[t].result = HttpError(404, <<"Converted file not found">>)
          \/ thr[t].result.status = 500 /\ thr[t].result.error[1] = "Download failed: "
          \/ thr[t].result.status = 200 /\ thr[t].output_path = <<>>
                                         /\ thr[t].result.path = thr[t].video_url

\* the request called requests.get
TookRemote(t) == remote_fetches[t] > 0

\* how many of the three paths the request has taken
PathsTaken(t) ==
    (IF TookConversion(t) THEN 1 ELSE 0) + (IF TookLocalFile(t) THEN 1 ELSE 0)
        + (IF TookRemote(t) THEN 1 ELSE 0)

\* a request of GET /api/download that carries a url
RouteRequest(t) == thr[t].op = "route" /\ Truthy(thr[t].video_url)

\* C14: a request of GET /api/download that carries a url takes exactly one of
\* the conversion, local-file and remote paths, the conversion path first: it is
\* taken exactly when the url holds "m3u8" and original_url is non-empty, even
\* for a local path; the encoder is started only for such a request whose
\* original_url is story-type, with the encoder available; such a request that
\* fails the story or encoder test is answered 500 with no encoder run, no remote
\* fetch and no local file; a url holding "m3u8" without original_url is never
\* converted and goes to the local-file path if it is a local path, and to the
\* remote path otherwise.
C14_OnePathConversionFirst ==
    \A t \in Threads :
        RouteRequest(t) =>
            LET m3u8 == Contains(thr[t].video_url, M3U8)
                orig == thr[t].original_url
                able == is_story_url(orig) /\ ffmpeg_available
            IN /\ PathsTaken(t) = 1
               /\ TookConversion(t) <=> (m3u8 /\ orig # <<>>)
               /\ ffmpeg_runs[t] > 0 => (m3u8 /\ orig # <<>> /\ able)
               /\ (m3u8 /\ orig # <<>> /\ ~able) =>
                      /\ thr[t].pc = "done" /\ thr[t].result = NOT_AVAILABLE
                      /\ ffmpeg_runs[t] = 0 /\ ~TookRemote(t) /\ ~TookLocalFile(t)
               /\ (m3u8 /\ orig = <<>>) =>
                      /\ ffmpeg_runs[t] = 0
                      /\ IF is_local_path(thr[t].video_url) THEN TookLocalFile(t) ELSE TookRemote(t)

\* C14 witness: a manifest url with a story original_url went to the encoder,
\* and a local path holding "m3u8" requested without original_url was answered
\* by the local-file branch
C14_Witness ==
    \E t1, t2 \in Threads :
        /\ RouteRequest(t1) /\ thr[t1].video_url = HLS_URL /\ thr[t1].original_url = URL_STORY
        /\ ffmpeg_runs[t1] = 1 /\ ~TookLocalFile(t1) /\ ~TookRemote(t1)
        /\ RouteRequest(t2) /\ thr[t2].video_url = LOCAL_M3U8 /\ thr[t2].original_url = <<>>
        /\ thr[t2].pc = "done" /\ thr[t2].result.status = 404
        /\ ffmpeg_runs[t2] = 0 /\ remote_fetches[t2] = 0

====
